---- MODULE Spec2Model ----
(***************************************************************************)
(* Model of openr::Config (openr/config/Config.cpp): the constructor reads *)
(* a configuration file, deserializes it into config_ and runs             *)
(* populateInternalDb(), which populates the area registry and then runs   *)
(* the per-subsystem validations in a fixed order.  Every throw of the     *)
(* source is a transition to pc = "failed" carrying the thrown error.      *)
(***************************************************************************)
EXTENDS Integers, Sequences, FiniteSets, TLC

VARIABLES
  contents,                  \* what folly::readFile found at configFile
  config_,                   \* thrift::OpenrConfig config_
  areaIds_,                  \* std::unordered_set<std::string> areaIds_
  areaConfigs_,              \* map areaId -> AreaConfiguration
  areaIdx,                   \* position of the addAreaRegex loop (1-based)
  includeItfRegexes_,        \* shared_ptr<re2::RE2::Set>, None when nullptr
  excludeItfRegexes_,
  redistributeItfRegexes_,
  prefixAllocationParams_,   \* std::optional<PrefixAllocationParams>
  pc,                        \* position of the constructor
  err,                       \* the exception that left the constructor
  previous                   \* the Config whose running config is being reloaded

vars == <<contents, config_, areaIds_, areaConfigs_, areaIdx,
          includeItfRegexes_, excludeItfRegexes_, redistributeItfRegexes_,
          prefixAllocationParams_, pc, err, previous>>

(***************************************************************************)
(* Optional values: an unset optional / a null pointer is the empty        *)
(* sequence, a set one is a one-element sequence.                          *)
(***************************************************************************)
None == <<>>
Some(v) == <<v>>
IsSet(o) == o # <<>>
ValueOr(o, d) == IF o = <<>> THEN d ELSE o[1]

(***************************************************************************)
(* Exceptions.                                                             *)
(***************************************************************************)
NoArgs == [none |-> TRUE]
Throw(type, msg, args) == [type |-> type, msg |-> msg, args |-> args]
NoError == Throw("none", "", NoArgs)
IsError(e) == e.type # "none"

\* the first error of a sequence of checks, in the order they are written
RECURSIVE FirstError(_)
FirstError(checks) ==
  IF checks = <<>> THEN NoError
  ELSE IF IsError(Head(checks)) THEN Head(checks)
  ELSE FirstError(Tail(checks))

(***************************************************************************)
(* Bounds of the model.                                                    *)
(***************************************************************************)
MaxAreas == 2       \* longest area list of a document
MaxTime == 3        \* largest hello/keepalive/hold interval of the timing sweep

(***************************************************************************)
(* Regular expressions.  A pattern is a sequence of tokens: a literal      *)
(* character, ".*", "[0-9]", or "[" (a character class that is never       *)
(* closed, which RE2 refuses to parse).  A candidate name is a sequence of *)
(* characters.                                                             *)
(***************************************************************************)
PatAny == <<".*">>
PatEth == <<"e", "t", "h", "[0-9]">>
PatBad == <<"e", "[">>

Candidates == { <<"e", "t", "h", "0">>, <<"E", "T", "H", "3">>,
                <<"e", "t", "h", "0", ".", "1">>, <<"x", "e", "t", "h", "0">>,
                <<>> }

Lower(c) ==
  CASE c = "E" -> "e" [] c = "T" -> "t" [] c = "H" -> "h" [] c = "X" -> "x"
    [] OTHER -> c

IsDigit(c) == c \in {"0", "1", "2", "3", "4", "5", "6", "7", "8", "9"}

\* RE2 parse of one pattern: Set::Add returns -1 when it fails
ParseOk(regexStr) == \A i \in 1..Len(regexStr) : regexStr[i] # "["

TokMatch(tok, c, caseSensitive) ==
  IF tok = "[0-9]" THEN IsDigit(c)
  ELSE IF caseSensitive THEN tok = c
  ELSE Lower(tok) = Lower(c)

RECURSIVE FullMatch(_, _, _)
FullMatch(p, s, caseSensitive) ==
  IF p = <<>> THEN s = <<>>
  ELSE IF Head(p) = ".*"
    THEN \E k \in 0..Len(s) :
           FullMatch(Tail(p), SubSeq(s, k + 1, Len(s)), caseSensitive)
  ELSE /\ s # <<>>
       /\ TokMatch(Head(p), Head(s), caseSensitive)
       /\ FullMatch(Tail(p), Tail(s), caseSensitive)

\* a pattern matched under an anchor: ANCHOR_BOTH spans the whole candidate,
\* UNANCHORED any substring of it
PatternMatch(p, s, caseSensitive, anchor) ==
  IF anchor = "ANCHOR_BOTH" THEN FullMatch(p, s, caseSensitive)
  ELSE \E i \in 1..(Len(s) + 1) : \E j \in (i - 1)..Len(s) :
         FullMatch(p, SubSeq(s, i, j), caseSensitive)

\* re2::RE2::Set(options, anchor) after Add of every pattern and Compile
RE2Set(regexes, caseSensitive, anchor) ==
  [patterns |-> regexes, case_sensitive |-> caseSensitive, anchor |-> anchor]

\* RE2::Set::Match: does any pattern of the set match the candidate
SetMatch(set, s) ==
  \E i \in 1..Len(set.patterns) :
    PatternMatch(set.patterns[i], s, set.case_sensitive, set.anchor)

\* index of the first pattern of a list that Set::Add refuses, 0 when none
RECURSIVE FirstBadRegexFrom(_, _)
FirstBadRegexFrom(regexes, i) ==
  IF i > Len(regexes) THEN 0
  ELSE IF ~ParseOk(regexes[i]) THEN i
  ELSE FirstBadRegexFrom(regexes, i + 1)

FirstBadRegex(regexes) == FirstBadRegexFrom(regexes, 1)

(***************************************************************************)
(* Enumerations of the document schema.  A value the schema does not name  *)
(* ("UNRECOGNIZED") is one for which enumName() returns nullptr.           *)
(***************************************************************************)
PrefixForwardingType == {"IP", "SR_MPLS"}
PrefixForwardingAlgorithm == {"SP_ECMP", "KSP2_ED_ECMP"}
PrefixAllocationMode == {"DYNAMIC_LEAF_NODE", "DYNAMIC_ROOT_NODE", "STATIC"}
enumName(v, enum) == v \in enum

kDefaultArea == "0"

(***************************************************************************)
(* Config::addAreaRegex                                                    *)
(***************************************************************************)
AreaConfiguration(areaId, neighborRegexList, interfaceRegexList) ==
  [area_id |-> areaId,
   neighborRegexList |-> neighborRegexList,
   interfaceRegexList |-> interfaceRegexList]

\* the option set of addAreaRegex: regexOpts.set_case_sensitive(false)
AreaRegexCaseSensitive == FALSE

\* compile one list: nullptr for an empty list, else the compiled set
AreaRegexList(regexes) ==
  IF regexes = <<>> THEN None
  ELSE Some(RE2Set(regexes, AreaRegexCaseSensitive, "ANCHOR_BOTH"))

EmptyRegexesError(areaId) ==
  Throw("invalid_argument",
        "Invalid config. At least one non-empty regexes for neighbor or interface",
        NoArgs)

AddRegexError(which, regexes, areaId) ==
  IF FirstBadRegex(regexes) = 0 THEN NoError
  ELSE Throw("invalid_argument",
             IF which = "neighbor" THEN "Failed to add neighbor regex"
             ELSE "Failed to add interface regex",
             [regex |-> regexes[FirstBadRegex(regexes)], area |-> areaId])

\* the exception addAreaRegex leaves with, NoError when it returns
addAreaRegexError(areaId, neighborRegexes, interfaceRegexes) ==
  IF neighborRegexes = <<>> /\ interfaceRegexes = <<>>
    THEN EmptyRegexesError(areaId)
  ELSE FirstError(<<AddRegexError("neighbor", neighborRegexes, areaId),
                    AddRegexError("interface", interfaceRegexes, areaId)>>)

\* areaConfigs_.emplace(areaId, ...): an existing key is left alone
Emplace(map, key, value) ==
  IF key \in DOMAIN map THEN map
  ELSE [k \in DOMAIN map \cup {key} |-> IF k = key THEN value ELSE map[k]]

EmptyMap == [k \in {} |-> None]

(***************************************************************************)
(* Config::populateAreaConfig                                              *)
(***************************************************************************)
defaultArea ==
  [area_id |-> kDefaultArea,
   neighbor_regexes |-> <<PatAny>>,
   interface_regexes |-> <<PatAny>>]

\* the list the uniqueness sweep walks
SweptAreas(cfg) == IF cfg.areas = <<>> THEN <<defaultArea>> ELSE cfg.areas

\* the list the addAreaRegex loop walks
CompiledAreas(cfg) == cfg.areas

AreaIdsOf(areas, n) == { areas[i].area_id : i \in 1..n }

\* index of the first area whose id areaIds_ already holds, 0 when none
RECURSIVE FirstDuplicateFrom(_, _)
FirstDuplicateFrom(areas, i) ==
  IF i > Len(areas) THEN 0
  ELSE IF areas[i].area_id \in AreaIdsOf(areas, i - 1) THEN i
  ELSE FirstDuplicateFrom(areas, i + 1)

\* the result of areaIds_.emplace() ignored
FirstDuplicateIgnored(areas) == 0

FirstDuplicate(areas) == FirstDuplicateFrom(areas, 1)

DuplicateAreaError(areaId) ==
  Throw("invalid_argument", "Duplicate area config: area_id", [area |-> areaId])

(***************************************************************************)
(* Feature accessors of Config.                                            *)
(***************************************************************************)
isOrderedFibProgrammingEnabled(cfg) == cfg.enable_ordered_fib_programming
isPrefixAllocationEnabled(cfg) == cfg.enable_prefix_allocation
isV4Enabled(cfg) == cfg.enable_v4
isBgpPeeringEnabled(cfg) == cfg.enable_bgp_peering
isWatchdogEnabled(cfg) == cfg.enable_watchdog

(***************************************************************************)
(* Config::populateInternalDb: prefix forwarding type and algorithm        *)
(***************************************************************************)
ForwardingError(cfg) ==
  LET pfxType == cfg.prefix_forwarding_type
      pfxAlgo == cfg.prefix_forwarding_algorithm
  IN IF ~enumName(pfxType, PrefixForwardingType)
        \/ ~enumName(pfxAlgo, PrefixForwardingAlgorithm)
       THEN Throw("invalid_argument",
                  "invalid prefix_forwarding_type or prefix_forwarding_algorithm",
                  NoArgs)
     ELSE IF pfxAlgo = "KSP2_ED_ECMP" /\ pfxType # "SR_MPLS"
       THEN Throw("invalid_argument",
                  "prefix_forwarding_type must be set to SR_MPLS for KSP2_ED_ECMP",
                  NoArgs)
     ELSE NoError

(***************************************************************************)
(* Fib                                                                     *)
(***************************************************************************)
\* the area count compared against the wrong limit
OrderedFibErrorOffByOne(cfg, areaIds) ==
  IF isOrderedFibProgrammingEnabled(cfg) /\ Cardinality(areaIds) > 2
    THEN Throw("invalid_argument",
               "enable_ordered_fib_programming only support single area config",
               NoArgs)
  ELSE NoError

OrderedFibError(cfg, areaIds) ==
  IF isOrderedFibProgrammingEnabled(cfg) /\ Cardinality(areaIds) > 1
    THEN Throw("invalid_argument",
               "enable_ordered_fib_programming only support single area config",
               NoArgs)
  ELSE NoError

(***************************************************************************)
(* Kvstore                                                                 *)
(***************************************************************************)
KvstoreError(cfg) ==
  LET floodRate == cfg.kvstore_config.flood_rate
  IN IF ~IsSet(floodRate) THEN NoError
     ELSE IF floodRate[1].flood_msg_per_sec <= 0
       THEN Throw("out_of_range", "kvstore flood_msg_per_sec should be > 0", NoArgs)
     ELSE IF floodRate[1].flood_msg_burst_size <= 0
       THEN Throw("out_of_range", "kvstore flood_msg_burst_size should be > 0", NoArgs)
     ELSE NoError

(***************************************************************************)
(* Spark                                                                   *)
(***************************************************************************)
MaxPort == 65535
FastInitFactor == 1000
GracefulRestartFactor == 3

PortOutOfRange(port) == port <= 0 \/ port > MaxPort

FastInitExceedsHello(fastinit, hello) == fastinit > FastInitFactor * hello

\* keepalive equal to hold refused
KeepAliveReachesHold(keepalive, hold) == keepalive >= hold

KeepAliveExceedsHold(keepalive, hold) == keepalive > hold

GracefulRestartTooShort(gr, keepalive) == gr < GracefulRestartFactor * keepalive

ThresholdsInvalid(lower, upper) == lower < 0 \/ upper < 0 \/ lower >= upper

WindowsInvalid(fast, slow) == fast < 0 \/ slow < 0 \/ fast > slow

Check(cond, type, msg, args) == IF cond THEN Throw(type, msg, args) ELSE NoError

SparkPortError(sparkConfig) ==
  Check(PortOutOfRange(sparkConfig.neighbor_discovery_port), "out_of_range",
        "neighbor_discovery_port should be in range [0, 65535]",
        [neighbor_discovery_port |-> sparkConfig.neighbor_discovery_port])

\* the checks of the section after the port check, in source order
SparkTimingError(sparkConfig) ==
  LET hello == sparkConfig.hello_time_s
      fastinit == sparkConfig.fastinit_hello_time_ms
      keepalive == sparkConfig.keepalive_time_s
      hold == sparkConfig.hold_time_s
      gr == sparkConfig.graceful_restart_time_s
      sd == sparkConfig.step_detector_conf
  IN FirstError(<<
       Check(hello <= 0, "out_of_range", "hello_time_s should be > 0",
             [hello_time_s |-> hello]),
       Check(fastinit <= 0, "out_of_range", "fastinit_hello_time_ms should be > 0",
             [fastinit_hello_time_ms |-> fastinit]),
       Check(FastInitExceedsHello(fastinit, hello), "invalid_argument",
             "fastinit_hello_time_ms should be <= hold_time_s * 1000",
             [fastinit_hello_time_ms |-> fastinit, hello_time_s |-> hello]),
       Check(keepalive <= 0, "out_of_range", "keepalive_time_s should be > 0",
             [keepalive_time_s |-> keepalive]),
       Check(KeepAliveExceedsHold(keepalive, hold), "invalid_argument",
             "keepalive_time_s should be <= hold_time_s",
             [keepalive_time_s |-> keepalive, hold_time_s |-> hold]),
       Check(hold <= 0, "out_of_range", "hold_time_s should be > 0",
             [hold_time_s |-> hold]),
       Check(gr <= 0, "out_of_range", "graceful_restart_time_s should be > 0",
             [graceful_restart_time_s |-> gr]),
       Check(GracefulRestartTooShort(gr, keepalive), "invalid_argument",
             "graceful_restart_time_s should be >= 3 * keepalive_time_s",
             [graceful_restart_time_s |-> gr, keepalive_time_s |-> keepalive]),
       Check(ThresholdsInvalid(sd.lower_threshold, sd.upper_threshold),
             "invalid_argument",
             "step_detector_conf.lower_threshold should be < step_detector_conf.upper_threshold, and they should be >= 0",
             [lower_threshold |-> sd.lower_threshold,
              upper_threshold |-> sd.upper_threshold]),
       Check(WindowsInvalid(sd.fast_window_size, sd.slow_window_size),
             "invalid_argument",
             "step_detector_conf.fast_window_size should be <= step_detector_conf.slow_window_size, and they should be >= 0",
             [fast_window_size |-> sd.fast_window_size,
              slow_window_size |-> sd.slow_window_size]),
       Check(ThresholdsInvalid(sd.lower_threshold, sd.upper_threshold),
             "invalid_argument",
             "step_detector_conf.lower_threshold should be < step_detector_conf.upper_threshold",
             [lower_threshold |-> sd.lower_threshold,
              upper_threshold |-> sd.upper_threshold]) >>)

SparkError(cfg) ==
  FirstError(<<SparkPortError(cfg.spark_config), SparkTimingError(cfg.spark_config)>>)

(***************************************************************************)
(* Monitor                                                                 *)
(***************************************************************************)
MonitorError(cfg) ==
  Check(cfg.monitor_config.max_event_log < 0, "out_of_range",
        "monitor_max_event_log should be >= 0",
        [max_event_log |-> cfg.monitor_config.max_event_log])

(***************************************************************************)
(* Link Monitor: backoff validation                                        *)
(***************************************************************************)
InitialBackoffExceedsMax(initial, max) == initial > max

LinkMonitorError(cfg) ==
  LET initial == cfg.link_monitor_config.linkflap_initial_backoff_ms
      max == cfg.link_monitor_config.linkflap_max_backoff_ms
  IN FirstError(<<
       Check(initial < 0, "out_of_range",
             "linkflap_initial_backoff_ms should be >= 0",
             [linkflap_initial_backoff_ms |-> initial]),
       Check(max < 0, "out_of_range",
             "linkflap_max_backoff_ms should be >= 0",
             [linkflap_max_backoff_ms |-> max]),
       Check(InitialBackoffExceedsMax(initial, max), "out_of_range",
             "linkflap_initial_backoff_ms should be < linkflap_max_backoff_ms",
             [linkflap_initial_backoff_ms |-> initial,
              linkflap_max_backoff_ms |-> max]) >>)

(***************************************************************************)
(* Link Monitor: include / exclude / redistribute interface regexes        *)
(***************************************************************************)
\* re2::RE2::Options regexOpts of populateInternalDb is left as constructed
LinkMonitorCaseSensitive == TRUE

\* the member after its block: nullptr for an empty list; the set built so
\* far when an Add fails; the compiled set otherwise
ItfRegexSet(regexes) ==
  IF regexes = <<>> THEN None
  ELSE IF FirstBadRegex(regexes) # 0
    THEN Some(RE2Set(SubSeq(regexes, 1, FirstBadRegex(regexes) - 1),
                     LinkMonitorCaseSensitive, "ANCHOR_BOTH"))
  ELSE Some(RE2Set(regexes, LinkMonitorCaseSensitive, "ANCHOR_BOTH"))

ItfRegexError(which, regexes) ==
  Check(FirstBadRegex(regexes) # 0, "invalid_argument",
        CASE which = "include" -> "Add include_interface_regexes failed"
          [] which = "exclude" -> "Add exclude_interface_regexes failed"
          [] OTHER -> "Add redistribute_interface_regexes failed",
        NoArgs)

InterfaceRegexesError(cfg) ==
  LET lmConf == cfg.link_monitor_config
  IN FirstError(<<ItfRegexError("include", lmConf.include_interface_regexes),
                  ItfRegexError("exclude", lmConf.exclude_interface_regexes),
                  ItfRegexError("redistribute",
                                lmConf.redistribute_interface_regexes)>>)

(***************************************************************************)
(* folly::IPAddress::createNetwork.  A network string is <<>> (empty),     *)
(* <<address>> or <<address, cidr>> for "address/cidr".                    *)
(***************************************************************************)
AddressFamily(addr) ==
  CASE addr = "10.0.0.0" -> "v4"
    [] addr = "face:b00c::" -> "v6"
    [] OTHER -> "invalid"

BitCount(family) == IF family = "v4" THEN 32 ELSE 128

createNetworkFails(str) ==
  \/ str = <<>>
  \/ AddressFamily(str[1]) = "invalid"
  \/ /\ Len(str) > 1
     /\ (str[2] < 0 \/ str[2] > BitCount(AddressFamily(str[1])))

\* the CIDRNetwork (address masked to the prefix length, prefix length)
createNetwork(str) ==
  LET family == AddressFamily(str[1])
      cidr == IF Len(str) > 1 THEN str[2] ELSE BitCount(family)
  IN [first |-> [family |-> family, addr |-> str[1], mask |-> cidr],
      second |-> cidr]

(***************************************************************************)
(* Config::createPrefixAllocationParams                                    *)
(***************************************************************************)
\* the uint8_t parameter allocationPfxLen receives the document's integer
NarrowToUint8(v) == v % 256

\* a target length equal to the seed length let through
AllocLenOutOfRangeLax(allocationPfxLen, seedLen, maxLen) ==
  allocationPfxLen < seedLen \/ allocationPfxLen > maxLen

AllocLenOutOfRange(allocationPfxLen, seedLen, maxLen) ==
  allocationPfxLen <= seedLen \/ allocationPfxLen > maxLen

createPrefixAllocationParamsError(seedPfxStr, allocationPfxLen) ==
  IF seedPfxStr = <<>> \/ allocationPfxLen = 0
    THEN Throw("invalid_argument",
               "seed_prefix and allocate_prefix_len must be filled.", NoArgs)
  ELSE IF createNetworkFails(seedPfxStr)
    THEN Throw("IPAddressFormatException", "createNetwork", NoArgs)
  ELSE LET seedPfx == createNetwork(seedPfxStr)
       IN IF seedPfx.first.family = "v4"
             /\ AllocLenOutOfRange(allocationPfxLen, seedPfx.second, 32)
            THEN Throw("out_of_range",
                       "invalid allocate_prefix_len, valid range = (seed, 32]",
                       [allocate_prefix_len |-> allocationPfxLen,
                        seed_len |-> seedPfx.second])
          ELSE IF seedPfx.first.family = "v6"
             /\ AllocLenOutOfRange(allocationPfxLen, seedPfx.second, 128)
            THEN Throw("out_of_range",
                       "invalid allocate_prefix_len, valid range = (seed, 128]",
                       [allocate_prefix_len |-> allocationPfxLen,
                        seed_len |-> seedPfx.second])
          ELSE NoError

createPrefixAllocationParams(seedPfxStr, allocationPfxLen) ==
  [first |-> createNetwork(seedPfxStr), second |-> allocationPfxLen]

(***************************************************************************)
(* Prefix Allocation                                                       *)
(***************************************************************************)
\* DYNAMIC_LEAF_NODE and STATIC: are the operands "empty"
LeafOperandsNonEmpty(seedPrefix, allocatePfxLen) ==
  seedPrefix # <<>> \/ allocatePfxLen > 0

PrefixAllocationError(cfg, areaIds) ==
  IF ~isPrefixAllocationEnabled(cfg) THEN NoError
  ELSE IF Cardinality(areaIds) > 1
    THEN Throw("invalid_argument",
               "prefix_allocation only support single area config", NoArgs)
  ELSE IF ~IsSet(cfg.prefix_allocation_config)
    THEN Throw("invalid_argument",
               "enable_prefix_allocation = true, but prefix_allocation_config is empty",
               NoArgs)
  ELSE LET paConf == cfg.prefix_allocation_config[1]
           seedPrefix == ValueOr(paConf.seed_prefix, <<>>)
           allocatePfxLen == ValueOr(paConf.allocate_prefix_len, 0)
       IN IF ~enumName(paConf.prefix_allocation_mode, PrefixAllocationMode)
            THEN Throw("invalid_argument", "invalid prefix_allocation_mode", NoArgs)
          ELSE IF paConf.prefix_allocation_mode = "DYNAMIC_ROOT_NODE"
            THEN LET e == createPrefixAllocationParamsError(
                            seedPrefix, NarrowToUint8(allocatePfxLen))
                 IN IF IsError(e) THEN e
                    ELSE IF createNetwork(seedPrefix).first.family = "v4"
                            /\ ~isV4Enabled(cfg)
                      THEN Throw("invalid_argument",
                                 "v4 seed_prefix detected, but enable_v4 = false",
                                 NoArgs)
                    ELSE NoError
          ELSE IF LeafOperandsNonEmpty(seedPrefix, allocatePfxLen)
            THEN Throw("invalid_argument",
                       "prefix_allocation_mode != DYNAMIC_ROOT_NODE, seed_prefix and allocate_prefix_len must be empty",
                       NoArgs)
          ELSE NoError

\* prefixAllocationParams_ when the section is left, by return or by throw
PrefixAllocationParamsAfter(cfg, areaIds) ==
  IF /\ isPrefixAllocationEnabled(cfg)
     /\ Cardinality(areaIds) <= 1
     /\ IsSet(cfg.prefix_allocation_config)
     /\ cfg.prefix_allocation_config[1].prefix_allocation_mode = "DYNAMIC_ROOT_NODE"
     /\ ~IsError(createPrefixAllocationParamsError(
           ValueOr(cfg.prefix_allocation_config[1].seed_prefix, <<>>),
           NarrowToUint8(ValueOr(cfg.prefix_allocation_config[1].allocate_prefix_len, 0))))
    THEN Some(createPrefixAllocationParams(
           ValueOr(cfg.prefix_allocation_config[1].seed_prefix, <<>>),
           NarrowToUint8(ValueOr(cfg.prefix_allocation_config[1].allocate_prefix_len, 0))))
  ELSE None

(***************************************************************************)
(* bgp peering                                                             *)
(***************************************************************************)
BgpError(cfg) ==
  Check(isBgpPeeringEnabled(cfg) /\ ~IsSet(cfg.bgp_config), "invalid_argument",
        "enable_bgp_peering = true, but bgp_config is empty", NoArgs)

BgpRouteTranslationConfig == [empty |-> TRUE]

\* config_ after the section: an unset translation config is default-filled
BgpConfigAfter(cfg) ==
  IF isBgpPeeringEnabled(cfg) /\ ~IsSet(cfg.bgp_translation_config)
    THEN [cfg EXCEPT !.bgp_translation_config = Some(BgpRouteTranslationConfig)]
  ELSE cfg

(***************************************************************************)
(* watchdog                                                                *)
(***************************************************************************)
WatchdogError(cfg) ==
  Check(isWatchdogEnabled(cfg) /\ ~IsSet(cfg.watchdog_config), "invalid_argument",
        "enable_watchdog = true, but watchdog_config is empty", NoArgs)

(***************************************************************************)
(* The documents the model loads.  BaseDocument is a document every        *)
(* section of which passes; each family below varies one section of it,    *)
(* and MultiDocs varies all sections together.                             *)
(***************************************************************************)
BaseSpark ==
  [neighbor_discovery_port |-> 6666,
   hello_time_s |-> 20,
   fastinit_hello_time_ms |-> 500,
   keepalive_time_s |-> 2,
   hold_time_s |-> 10,
   graceful_restart_time_s |-> 30,
   step_detector_conf |->
     [fast_window_size |-> 10, slow_window_size |-> 60,
      lower_threshold |-> 2, upper_threshold |-> 5]]

BaseLinkMonitor ==
  [linkflap_initial_backoff_ms |-> 60000,
   linkflap_max_backoff_ms |-> 300000,
   include_interface_regexes |-> <<>>,
   exclude_interface_regexes |-> <<>>,
   redistribute_interface_regexes |-> <<>>]

BaseDocument ==
  [areas |-> <<>>,
   prefix_forwarding_type |-> "IP",
   prefix_forwarding_algorithm |-> "SP_ECMP",
   enable_ordered_fib_programming |-> FALSE,
   kvstore_config |-> [flood_rate |-> None],
   spark_config |-> BaseSpark,
   monitor_config |-> [max_event_log |-> 100],
   link_monitor_config |-> BaseLinkMonitor,
   enable_v4 |-> FALSE,
   enable_prefix_allocation |-> FALSE,
   prefix_allocation_config |-> None,
   enable_bgp_peering |-> FALSE,
   bgp_config |-> None,
   bgp_translation_config |-> None,
   enable_watchdog |-> FALSE,
   watchdog_config |-> None]

SeqsUpTo(S, n) == UNION { [1..k -> S] : k \in 0..n }

RegexLists == { <<>>, <<PatEth>>, <<PatBad>> }
AreaIdChoices == { kDefaultArea, "a" }
AreaDocs ==
  [area_id : AreaIdChoices, neighbor_regexes : RegexLists,
   interface_regexes : RegexLists]
AreaListDocs == { [BaseDocument EXCEPT !.areas = l] : l \in SeqsUpTo(AreaDocs, MaxAreas) }

EnumChoices(enum) == enum \cup {"UNRECOGNIZED"}
ForwardingDocs ==
  { [BaseDocument EXCEPT !.prefix_forwarding_type = t,
                         !.prefix_forwarding_algorithm = a] :
      t \in EnumChoices(PrefixForwardingType),
      a \in EnumChoices(PrefixForwardingAlgorithm) }

FloodRates ==
  {None} \cup { Some([flood_msg_per_sec |-> m, flood_msg_burst_size |-> b]) :
                  m \in -1..1, b \in -1..1 }
KvstoreDocs == { [BaseDocument EXCEPT !.kvstore_config.flood_rate = f] : f \in FloodRates }

TimeVals == -1..MaxTime
Ports == { -1, 0, 1, 6666, MaxPort, MaxPort + 1 }
FastInitVals ==
  { -1, 0, 1 } \cup { FastInitFactor * h + d : h \in 1..MaxTime, d \in {-1, 0, 1} }
GracefulRestartVals == -1..(GracefulRestartFactor * MaxTime + 1)

SparkConfigs ==
  { [BaseSpark EXCEPT !.neighbor_discovery_port = p] : p \in Ports }
  \cup { [BaseSpark EXCEPT !.hello_time_s = h, !.fastinit_hello_time_ms = f] :
           h \in TimeVals, f \in FastInitVals }
  \cup { [BaseSpark EXCEPT !.keepalive_time_s = k, !.hold_time_s = h,
                           !.graceful_restart_time_s = g] :
           k \in TimeVals, h \in TimeVals, g \in GracefulRestartVals }
  \cup { [BaseSpark EXCEPT !.step_detector_conf.lower_threshold = l,
                           !.step_detector_conf.upper_threshold = u] :
           l \in TimeVals, u \in TimeVals }
  \cup { [BaseSpark EXCEPT !.step_detector_conf.fast_window_size = f,
                           !.step_detector_conf.slow_window_size = w] :
           f \in TimeVals, w \in TimeVals }
SparkDocs == { [BaseDocument EXCEPT !.spark_config = c] : c \in SparkConfigs }

MonitorDocs ==
  { [BaseDocument EXCEPT !.monitor_config.max_event_log = m] : m \in {-1, 0, 1} }

BackoffDocs ==
  { [BaseDocument EXCEPT !.link_monitor_config.linkflap_initial_backoff_ms = i,
                         !.link_monitor_config.linkflap_max_backoff_ms = m] :
      i \in TimeVals, m \in TimeVals }

ItfRegexLists == RegexLists \cup { <<PatEth, PatBad>> }
ItfRegexDocs ==
  { [BaseDocument EXCEPT !.link_monitor_config.include_interface_regexes = i,
                         !.link_monitor_config.exclude_interface_regexes = e,
                         !.link_monitor_config.redistribute_interface_regexes = r] :
      i \in ItfRegexLists, e \in ItfRegexLists, r \in ItfRegexLists }

SeedPrefixes ==
  { <<>>, <<"10.0.0.0">>, <<"10.0.0.0", 8>>, <<"10.0.0.0", 33>>,
    <<"face:b00c::", 64>>, <<"bogus", 8>> }
AllocLens ==
  { -232, -1, 0, 8, 9, 24, 32, 33, 64, 65, 128, 129, 255, 256, 264, 280, 320 }
PrefixAllocationConfigs ==
  [prefix_allocation_mode : EnumChoices(PrefixAllocationMode),
   seed_prefix : {None} \cup { Some(p) : p \in SeedPrefixes },
   allocate_prefix_len : {None} \cup { Some(n) : n \in AllocLens }]
PrefixAllocationDocs ==
  { [BaseDocument EXCEPT !.enable_prefix_allocation = TRUE,
                         !.enable_v4 = v4,
                         !.prefix_allocation_config = c] :
      v4 \in BOOLEAN,
      c \in {None} \cup { Some(x) : x \in PrefixAllocationConfigs } }

PresenceChoices == { None, Some([present |-> TRUE]) }
BgpDocs ==
  { [BaseDocument EXCEPT !.enable_bgp_peering = en, !.bgp_config = b,
                         !.bgp_translation_config = t] :
      en \in BOOLEAN, b \in PresenceChoices,
      t \in { None, Some(BgpRouteTranslationConfig) } }
WatchdogDocs ==
  { [BaseDocument EXCEPT !.enable_watchdog = en, !.watchdog_config = w] :
      en \in BOOLEAN, w \in PresenceChoices }

\* every section either as in BaseDocument or violating its validator
AreaA == [area_id |-> "a", neighbor_regexes |-> <<PatEth>>, interface_regexes |-> <<>>]
AreaB == [area_id |-> "b", neighbor_regexes |-> <<>>, interface_regexes |-> <<PatEth>>]
RootV6 ==
  [prefix_allocation_mode |-> "DYNAMIC_ROOT_NODE",
   seed_prefix |-> Some(<<"face:b00c::", 64>>), allocate_prefix_len |-> Some(128)]
MultiDocs ==
  { [areas |-> ar,
     prefix_forwarding_type |-> "IP",
     prefix_forwarding_algorithm |-> al,
     enable_ordered_fib_programming |-> of,
     kvstore_config |-> [flood_rate |-> fr],
     spark_config |-> [BaseSpark EXCEPT !.hold_time_s = ho],
     monitor_config |-> [max_event_log |-> ev],
     link_monitor_config |->
       [BaseLinkMonitor EXCEPT !.linkflap_max_backoff_ms = mb,
                               !.exclude_interface_regexes = ex],
     enable_v4 |-> FALSE,
     enable_prefix_allocation |-> pa # None,
     prefix_allocation_config |-> pa,
     enable_bgp_peering |-> bg # "off",
     bgp_config |-> IF bg = "on" THEN Some([present |-> TRUE]) ELSE None,
     bgp_translation_config |-> None,
     enable_watchdog |-> wd,
     watchdog_config |-> None] :
      ar \in { <<>>, <<AreaA, AreaB>>, <<AreaA, AreaA>> },
      al \in { "SP_ECMP", "KSP2_ED_ECMP" },
      of \in BOOLEAN,
      fr \in { None, Some([flood_msg_per_sec |-> 0, flood_msg_burst_size |-> 1]) },
      ho \in { 10, 1 },
      ev \in { 100, -1 },
      mb \in { 300000, 1 },
      ex \in { <<>>, <<PatBad>> },
      pa \in { None, Some(RootV6),
               Some([RootV6 EXCEPT !.allocate_prefix_len = Some(64)]) },
      bg \in { "off", "on", "unconfigured" },
      wd \in BOOLEAN }

\* well-formed area lists together with the single-area features
PatternedAreas ==
  { [area_id |-> id, neighbor_regexes |-> <<PatEth>>, interface_regexes |-> <<>>] :
      id \in AreaIdChoices \cup {"b"} }
LeafNoOperands ==
  [prefix_allocation_mode |-> "DYNAMIC_LEAF_NODE",
   seed_prefix |-> None, allocate_prefix_len |-> None]
AreaFeatureDocs ==
  { [BaseDocument EXCEPT !.areas = l,
                         !.enable_ordered_fib_programming = of,
                         !.enable_prefix_allocation = pa # None,
                         !.prefix_allocation_config = pa] :
      l \in SeqsUpTo(PatternedAreas, MaxAreas),
      of \in BOOLEAN,
      pa \in { None, Some(LeafNoOperands), Some(RootV6) } }

Documents ==
  AreaListDocs \cup ForwardingDocs \cup KvstoreDocs \cup SparkDocs
  \cup MonitorDocs \cup BackoffDocs \cup ItfRegexDocs \cup PrefixAllocationDocs
  \cup BgpDocs \cup WatchdogDocs \cup MultiDocs \cup AreaFeatureDocs

Files ==
  { [kind |-> "unreadable"], [kind |-> "malformed"] }
  \cup { [kind |-> "document", doc |-> d] : d \in Documents }

(***************************************************************************)
(* The constructor as a state machine.                                     *)
(***************************************************************************)
(***************************************************************************)
(* SimpleJSONSerializer.  The serialized form of a struct is a JSON object *)
(* (a function on the names it writes): every required field is written,  *)
(* an optional field only when it is set; reading fills the fields the     *)
(* object names and leaves the others as constructed.                      *)
(***************************************************************************)
TopOptionalFields ==
  { "prefix_allocation_config", "bgp_config", "bgp_translation_config",
    "watchdog_config" }
KvstoreOptionalFields == { "flood_rate" }
PrefixAllocationOptionalFields == { "seed_prefix", "allocate_prefix_len" }

DefaultKvstoreConfig == [flood_rate |-> None]
DefaultPrefixAllocationConfig ==
  [prefix_allocation_mode |-> "DYNAMIC_LEAF_NODE",
   seed_prefix |-> None, allocate_prefix_len |-> None]

WriteStruct(struct, optional) ==
  [f \in { g \in DOMAIN struct : g \notin optional \/ IsSet(struct[g]) } |->
     IF f \in optional THEN struct[f][1] ELSE struct[f]]

ReadStruct(json, optional, into) ==
  [f \in DOMAIN into |->
     IF f \in DOMAIN json
       THEN IF f \in optional THEN Some(json[f]) ELSE json[f]
     ELSE into[f]]

\* every optional field left out, set or not
SerializeRequiredOnly(cfg) ==
  [f \in DOMAIN cfg \ TopOptionalFields |->
     IF f = "kvstore_config" THEN WriteStruct(cfg[f], KvstoreOptionalFields)
     ELSE cfg[f]]

\* jsonSerializer.serialize(config_, &contents)
Serialize(cfg) ==
  LET top == WriteStruct(cfg, TopOptionalFields)
  IN [f \in DOMAIN top |->
        IF f = "kvstore_config" THEN WriteStruct(top[f], KvstoreOptionalFields)
        ELSE IF f = "prefix_allocation_config"
          THEN WriteStruct(top[f], PrefixAllocationOptionalFields)
        ELSE top[f]]

\* jsonSerializer.deserialize(contents, config_)
Deserialize(json, into) ==
  LET read == [f \in DOMAIN json |->
                 IF f = "kvstore_config"
                   THEN ReadStruct(json[f], KvstoreOptionalFields, DefaultKvstoreConfig)
                 ELSE IF f = "prefix_allocation_config"
                   THEN ReadStruct(json[f], PrefixAllocationOptionalFields,
                                   DefaultPrefixAllocationConfig)
                 ELSE json[f]]
  IN ReadStruct(read, TopOptionalFields, into)

\* the monitor section moved ahead of the spark section
StageAfterMonitorFirst(stage) ==
  CASE stage = "load" -> "populateAreaIds"
    [] stage = "populateAreaIds" -> "addAreaRegex"
    [] stage = "addAreaRegex" -> "forwarding"
    [] stage = "forwarding" -> "orderedFib"
    [] stage = "orderedFib" -> "kvstore"
    [] stage = "kvstore" -> "monitor"
    [] stage = "monitor" -> "spark"
    [] stage = "spark" -> "linkMonitor"
    [] stage = "linkMonitor" -> "interfaceRegexes"
    [] stage = "interfaceRegexes" -> "prefixAllocation"
    [] stage = "prefixAllocation" -> "bgp"
    [] stage = "bgp" -> "watchdog"
    [] stage = "watchdog" -> "done"

\* the section populateInternalDb runs after a section that passed
StageAfter(stage) ==
  CASE stage = "load" -> "populateAreaIds"
    [] stage = "populateAreaIds" -> "addAreaRegex"
    [] stage = "addAreaRegex" -> "forwarding"
    [] stage = "forwarding" -> "orderedFib"
    [] stage = "orderedFib" -> "kvstore"
    [] stage = "kvstore" -> "spark"
    [] stage = "spark" -> "monitor"
    [] stage = "monitor" -> "linkMonitor"
    [] stage = "linkMonitor" -> "interfaceRegexes"
    [] stage = "interfaceRegexes" -> "prefixAllocation"
    [] stage = "prefixAllocation" -> "bgp"
    [] stage = "bgp" -> "watchdog"
    [] stage = "watchdog" -> "done"

\* what a throw does to the constructor
PcAfterThrow(stage) == "failed"

Init ==
  /\ contents \in Files
  /\ config_ = BaseDocument
  /\ areaIds_ = {}
  /\ areaConfigs_ = EmptyMap
  /\ areaIdx = 0
  /\ includeItfRegexes_ = None
  /\ excludeItfRegexes_ = None
  /\ redistributeItfRegexes_ = None
  /\ prefixAllocationParams_ = None
  /\ pc = "load"
  /\ err = NoError
  /\ previous = None

\* leave `stage` with e: by throw when e is an error, else to the next section
Leave(stage, e) ==
  IF IsError(e)
    THEN pc' = PcAfterThrow(stage) /\ err' = e
  ELSE pc' = StageAfter(stage) /\ err' = err

\* Config::Config: readFile, deserialize
Load ==
  /\ pc = "load"
  /\ Leave("load",
       CASE contents.kind = "unreadable" ->
              Throw("ConfigError", "Could not read config file", NoArgs)
         [] contents.kind = "malformed" ->
              Throw("ConfigError", "Could not parse OpenrConfig struct", NoArgs)
         [] OTHER -> NoError)
  /\ config_' = CASE contents.kind = "document" -> contents.doc
                   [] contents.kind = "json" -> Deserialize(contents.text, config_)
                   [] OTHER -> config_
  /\ UNCHANGED <<previous, contents, areaIds_, areaConfigs_, areaIdx, includeItfRegexes_,
                 excludeItfRegexes_, redistributeItfRegexes_,
                 prefixAllocationParams_>>

\* populateAreaConfig: the loop that fills areaIds_
PopulateAreaIds ==
  /\ pc = "populateAreaIds"
  /\ LET areas == SweptAreas(config_)
         dup == FirstDuplicate(areas)
     IN /\ areaIds_' = AreaIdsOf(areas, IF dup = 0 THEN Len(areas) ELSE dup - 1)
        /\ Leave("populateAreaIds",
                 IF dup = 0 THEN NoError
                 ELSE DuplicateAreaError(areas[dup].area_id))
  /\ areaIdx' = 1
  /\ UNCHANGED <<previous, contents, config_, areaConfigs_, includeItfRegexes_,
                 excludeItfRegexes_, redistributeItfRegexes_,
                 prefixAllocationParams_>>

\* populateAreaConfig: one iteration of the loop that calls addAreaRegex
AddAreaRegex ==
  /\ pc = "addAreaRegex"
  /\ areaIdx <= Len(CompiledAreas(config_))
  /\ LET area == CompiledAreas(config_)[areaIdx]
         e == addAreaRegexError(area.area_id, area.neighbor_regexes,
                                area.interface_regexes)
     IN IF IsError(e)
          THEN /\ pc' = PcAfterThrow("addAreaRegex")
               /\ err' = e
               /\ UNCHANGED <<areaConfigs_, areaIdx>>
        ELSE /\ areaConfigs_' =
                  Emplace(areaConfigs_, area.area_id,
                          AreaConfiguration(area.area_id,
                                            AreaRegexList(area.neighbor_regexes),
                                            AreaRegexList(area.interface_regexes)))
             /\ areaIdx' = areaIdx + 1
             /\ UNCHANGED <<pc, err>>
  /\ UNCHANGED <<previous, contents, config_, areaIds_, includeItfRegexes_,
                 excludeItfRegexes_, redistributeItfRegexes_,
                 prefixAllocationParams_>>

\* populateAreaConfig returns once the loop has walked its list
AreaConfigDone ==
  /\ pc = "addAreaRegex"
  /\ areaIdx > Len(CompiledAreas(config_))
  /\ Leave("addAreaRegex", NoError)
  /\ UNCHANGED <<previous, contents, config_, areaIds_, areaConfigs_, areaIdx,
                 includeItfRegexes_, excludeItfRegexes_, redistributeItfRegexes_,
                 prefixAllocationParams_>>

\* a section that only checks
CheckOnly(stage, e) ==
  /\ pc = stage
  /\ Leave(stage, e)
  /\ UNCHANGED <<previous, contents, config_, areaIds_, areaConfigs_, areaIdx,
                 includeItfRegexes_, excludeItfRegexes_, redistributeItfRegexes_,
                 prefixAllocationParams_>>

Forwarding == CheckOnly("forwarding", ForwardingError(config_))

OrderedFib == CheckOnly("orderedFib", OrderedFibError(config_, areaIds_))

Kvstore == CheckOnly("kvstore", KvstoreError(config_))

Spark == CheckOnly("spark", SparkError(config_))

Monitor == CheckOnly("monitor", MonitorError(config_))

LinkMonitor == CheckOnly("linkMonitor", LinkMonitorError(config_))

\* the three blocks run in order; a block after a throwing one is not run
InterfaceRegexes ==
  /\ pc = "interfaceRegexes"
  /\ LET lmConf == config_.link_monitor_config
         incErr == ItfRegexError("include", lmConf.include_interface_regexes)
         excErr == ItfRegexError("exclude", lmConf.exclude_interface_regexes)
     IN /\ includeItfRegexes_' = ItfRegexSet(lmConf.include_interface_regexes)
        /\ excludeItfRegexes_' =
             IF IsError(incErr) THEN None
             ELSE ItfRegexSet(lmConf.exclude_interface_regexes)
        /\ redistributeItfRegexes_' =
             IF IsError(incErr) \/ IsError(excErr) THEN None
             ELSE ItfRegexSet(lmConf.redistribute_interface_regexes)
  /\ Leave("interfaceRegexes", InterfaceRegexesError(config_))
  /\ UNCHANGED <<previous, contents, config_, areaIds_, areaConfigs_, areaIdx,
                 prefixAllocationParams_>>

PrefixAllocation ==
  /\ pc = "prefixAllocation"
  /\ prefixAllocationParams_' = PrefixAllocationParamsAfter(config_, areaIds_)
  /\ Leave("prefixAllocation", PrefixAllocationError(config_, areaIds_))
  /\ UNCHANGED <<previous, contents, config_, areaIds_, areaConfigs_, areaIdx,
                 includeItfRegexes_, excludeItfRegexes_, redistributeItfRegexes_>>

Bgp ==
  /\ pc = "bgp"
  /\ config_' = IF IsError(BgpError(config_)) THEN config_ ELSE BgpConfigAfter(config_)
  /\ Leave("bgp", BgpError(config_))
  /\ UNCHANGED <<previous, contents, areaIds_, areaConfigs_, areaIdx, includeItfRegexes_,
                 excludeItfRegexes_, redistributeItfRegexes_,
                 prefixAllocationParams_>>

Watchdog == CheckOnly("watchdog", WatchdogError(config_))

\* the members of the Config object
Members ==
  [config_ |-> config_,
   areaIds_ |-> areaIds_,
   areaConfigs_ |-> areaConfigs_,
   includeItfRegexes_ |-> includeItfRegexes_,
   excludeItfRegexes_ |-> excludeItfRegexes_,
   redistributeItfRegexes_ |-> redistributeItfRegexes_,
   prefixAllocationParams_ |-> prefixAllocationParams_]

\* getRunningConfig() of a constructed Config, and a second Config
\* constructed from a file holding the string it returned
ReloadRunningConfig ==
  /\ pc = "done"
  /\ previous = None
  /\ previous' = Some([contents |-> contents, members |-> Members])
  /\ contents' = [kind |-> "json", text |-> Serialize(config_)]
  /\ config_' = BaseDocument
  /\ areaIds_' = {}
  /\ areaConfigs_' = EmptyMap
  /\ areaIdx' = 0
  /\ includeItfRegexes_' = None
  /\ excludeItfRegexes_' = None
  /\ redistributeItfRegexes_' = None
  /\ prefixAllocationParams_' = None
  /\ pc' = "load"
  /\ err' = NoError

Next ==
  \/ Load
  \/ PopulateAreaIds
  \/ AddAreaRegex
  \/ AreaConfigDone
  \/ Forwarding
  \/ OrderedFib
  \/ Kvstore
  \/ Spark
  \/ Monitor
  \/ LinkMonitor
  \/ InterfaceRegexes
  \/ PrefixAllocation
  \/ Bgp
  \/ Watchdog
  \/ ReloadRunningConfig

Spec == Init /\ [][Next]_vars

(***************************************************************************)
(* Vocabulary of the properties.                                           *)
(***************************************************************************)
IsDocument == contents.kind = "document"

\* positions of the constructor after a given section has passed
AfterAreas == { "forwarding", "orderedFib", "kvstore", "spark", "monitor",
                "linkMonitor", "interfaceRegexes", "prefixAllocation", "bgp",
                "watchdog", "done" }
AfterSpark == { "monitor", "linkMonitor", "interfaceRegexes", "prefixAllocation",
                "bgp", "watchdog", "done" }
AfterLinkMonitor == { "interfaceRegexes", "prefixAllocation", "bgp", "watchdog", "done" }
AfterPrefixAllocation == { "bgp", "watchdog", "done" }

FailedWith(msgs) == pc = "failed" /\ err.msg \in msgs

DuplicateAreaMsg == "Duplicate area config: area_id"
EmptyRegexesMsg ==
  "Invalid config. At least one non-empty regexes for neighbor or interface"
AreaMsgs == { DuplicateAreaMsg, EmptyRegexesMsg, "Failed to add neighbor regex",
              "Failed to add interface regex" }
PortMsg == "neighbor_discovery_port should be in range [0, 65535]"
SparkTimingMsgs ==
  { "hello_time_s should be > 0", "fastinit_hello_time_ms should be > 0",
    "fastinit_hello_time_ms should be <= hold_time_s * 1000",
    "keepalive_time_s should be > 0", "keepalive_time_s should be <= hold_time_s",
    "hold_time_s should be > 0", "graceful_restart_time_s should be > 0",
    "graceful_restart_time_s should be >= 3 * keepalive_time_s",
    "step_detector_conf.lower_threshold should be < step_detector_conf.upper_threshold, and they should be >= 0",
    "step_detector_conf.fast_window_size should be <= step_detector_conf.slow_window_size, and they should be >= 0",
    "step_detector_conf.lower_threshold should be < step_detector_conf.upper_threshold" }
BackoffMsgs ==
  { "linkflap_initial_backoff_ms should be >= 0",
    "linkflap_max_backoff_ms should be >= 0",
    "linkflap_initial_backoff_ms should be < linkflap_max_backoff_ms" }
MustBeFilledMsg == "seed_prefix and allocate_prefix_len must be filled."
LeafOperandsMsg ==
  "prefix_allocation_mode != DYNAMIC_ROOT_NODE, seed_prefix and allocate_prefix_len must be empty"
V4DisabledMsg == "v4 seed_prefix detected, but enable_v4 = false"
CreateParamsMsgs ==
  { MustBeFilledMsg, "createNetwork",
    "invalid allocate_prefix_len, valid range = (seed, 32]",
    "invalid allocate_prefix_len, valid range = (seed, 128]" }

\* does a (possibly null) compiled list of an area match the candidate
ListMatches(regexList, candidate) ==
  IsSet(regexList) /\ SetMatch(regexList[1], candidate)

(***************************************************************************)
(* C1.  A document with an empty area list passes area population and the  *)
(* area registry (areaConfigs_) then holds exactly one area, the default   *)
(* area id, whose neighbor and interface sets match every candidate name.  *)
(* The code fills areaIds_ with the default id but walks the document's    *)
(* own (empty) list when it fills areaConfigs_.                            *)
(***************************************************************************)
C1_DefaultAreaInRegistry ==
  (pc \in AfterAreas /\ config_.areas = <<>>) =>
    /\ areaIds_ = {kDefaultArea}
    /\ DOMAIN areaConfigs_ = {kDefaultArea}
    /\ \A c \in Candidates :
         /\ ListMatches(areaConfigs_[kDefaultArea].neighborRegexList, c)
         /\ ListMatches(areaConfigs_[kDefaultArea].interfaceRegexList, c)

(***************************************************************************)
(* C2.  Construction fails at the first violated validator of the fixed    *)
(* order: the error the constructor leaves with is the error of the        *)
(* earliest validator the document violates, the state derived by later    *)
(* sections is untouched, a failed constructor takes no further step, and  *)
(* the constructor completes only when no validator is violated.           *)
(***************************************************************************)
DeclaredAreaIds(cfg) == AreaIdsOf(SweptAreas(cfg), Len(SweptAreas(cfg)))

AreaRegistryError(cfg) ==
  IF \E i, j \in 1..Len(cfg.areas) : i < j /\ cfg.areas[i].area_id = cfg.areas[j].area_id
    THEN DuplicateAreaError(
           cfg.areas[CHOOSE j \in 1..Len(cfg.areas) :
                       /\ \E i \in 1..(j - 1) : cfg.areas[i].area_id = cfg.areas[j].area_id
                       /\ \A k \in 1..(j - 1) : \A i \in 1..(k - 1) :
                            cfg.areas[i].area_id # cfg.areas[k].area_id].area_id)
  ELSE FirstError([i \in 1..Len(cfg.areas) |->
                     addAreaRegexError(cfg.areas[i].area_id,
                                       cfg.areas[i].neighbor_regexes,
                                       cfg.areas[i].interface_regexes)])

\* the validators in the order of the claim
ValidatorErrors(cfg) ==
  << AreaRegistryError(cfg),
     ForwardingError(cfg),
     OrderedFibError(cfg, DeclaredAreaIds(cfg)),
     KvstoreError(cfg),
     SparkError(cfg),
     MonitorError(cfg),
     LinkMonitorError(cfg),
     InterfaceRegexesError(cfg),
     PrefixAllocationError(cfg, DeclaredAreaIds(cfg)),
     BgpError(cfg),
     WatchdogError(cfg) >>

\* position of the first violated validator, 0 when none is
FirstViolated(cfg) ==
  IF \A k \in 1..11 : ~IsError(ValidatorErrors(cfg)[k]) THEN 0
  ELSE CHOOSE k \in 1..11 :
         /\ IsError(ValidatorErrors(cfg)[k])
         /\ \A j \in 1..(k - 1) : ~IsError(ValidatorErrors(cfg)[j])

C2_FirstViolatedValidatorReported ==
  IsDocument =>
    LET k == FirstViolated(contents.doc)
    IN /\ pc = "done" => k = 0
       /\ pc = "failed" =>
            /\ k # 0
            /\ err = ValidatorErrors(contents.doc)[k]
            /\ k < 8 => /\ includeItfRegexes_ = None
                        /\ excludeItfRegexes_ = None
                        /\ redistributeItfRegexes_ = None
            /\ k < 9 => prefixAllocationParams_ = None
            /\ k < 11 => config_ = contents.doc
            /\ ~ENABLED Next

\* a document violating the liveness, monitoring and health-supervision
\* validators failed with the liveness error
C2_Witness ==
  /\ IsDocument
  /\ pc = "failed"
  /\ err.msg \in SparkTimingMsgs
  /\ IsError(MonitorError(contents.doc))
  /\ IsError(WatchdogError(contents.doc))

(***************************************************************************)
(* C3.  An area list in which two areas share an identifier fails area     *)
(* population with the duplicate-area error naming a shared identifier,    *)
(* whatever the pattern lists are, and no pattern list has been compiled   *)
(* into the registry by then.                                              *)
(***************************************************************************)
SharedAreaIds(areas) ==
  { areas[i].area_id : i \in { i \in 1..Len(areas) :
                                 \E j \in 1..Len(areas) :
                                   j # i /\ areas[j].area_id = areas[i].area_id } }

C3_DuplicateBeforePatterns ==
  (IsDocument /\ pc \notin {"load", "populateAreaIds"}
     /\ SharedAreaIds(contents.doc.areas) # {}) =>
    /\ pc = "failed"
    /\ err.type = "invalid_argument"
    /\ err.msg = DuplicateAreaMsg
    /\ err.args.area \in SharedAreaIds(contents.doc.areas)
    /\ areaConfigs_ = EmptyMap

\* a duplicate reported although the first area's pattern is malformed
C3_Witness ==
  /\ IsDocument
  /\ FailedWith({DuplicateAreaMsg})
  /\ Len(contents.doc.areas) >= 2
  /\ contents.doc.areas[1].neighbor_regexes = <<PatBad>>
  /\ contents.doc.areas[2].neighbor_regexes = <<>>
  /\ contents.doc.areas[2].interface_regexes = <<>>

(***************************************************************************)
(* C4.  A non-empty area list with unique identifiers that contains an     *)
(* area with both pattern lists empty fails area population, and the error *)
(* carries the id of such an area.                                         *)
(***************************************************************************)
PatternlessAreaIds(areas) ==
  { areas[i].area_id : i \in { i \in 1..Len(areas) :
                                 /\ areas[i].neighbor_regexes = <<>>
                                 /\ areas[i].interface_regexes = <<>> } }

C4_EmptyPatternsErrorNamesArea ==
  (IsDocument /\ pc \notin {"load", "populateAreaIds", "addAreaRegex"}
     /\ SharedAreaIds(contents.doc.areas) = {}
     /\ PatternlessAreaIds(contents.doc.areas) # {}) =>
    /\ pc = "failed"
    /\ "area" \in DOMAIN err.args
    /\ err.args.area \in PatternlessAreaIds(contents.doc.areas)

(***************************************************************************)
(* C5.  The discovery port check accepts exactly the ports of [0, 65535]:  *)
(* a document that reaches the liveness validator is rejected with the     *)
(* port range error only when its port is below 0 or above 65535, and is   *)
(* accepted by the validator only when its port is in the range.           *)
(***************************************************************************)
C5_PortAcceptedIffInRange ==
  LET port == config_.spark_config.neighbor_discovery_port
  IN /\ FailedWith({PortMsg}) => (port < 0 \/ port > 65535)
     /\ pc \in AfterSpark => (0 <= port /\ port <= 65535)

(***************************************************************************)
(* C6.  The link-flap backoff validator accepts exactly when the initial   *)
(* backoff is >= 0, the max backoff is >= 0 and the initial backoff is     *)
(* strictly less than the max backoff.                                     *)
(***************************************************************************)
BackoffLegal(lmConf) ==
  /\ lmConf.linkflap_initial_backoff_ms >= 0
  /\ lmConf.linkflap_max_backoff_ms >= 0
  /\ lmConf.linkflap_initial_backoff_ms < lmConf.linkflap_max_backoff_ms

C6_BackoffAcceptedIffStrictlyLess ==
  /\ FailedWith(BackoffMsgs) => ~BackoffLegal(config_.link_monitor_config)
  /\ pc \in AfterLinkMonitor => BackoffLegal(config_.link_monitor_config)

(***************************************************************************)
(* C7.  In a constructed Config with prefix allocation enabled in mode     *)
(* DYNAMIC_ROOT_NODE, the allocate_prefix_len of the document is strictly  *)
(* greater than the seed prefix length and at most 32 (v4 seed) or 128 (v6 *)
(* seed), and prefixAllocationParams_ carries that document value.         *)
(***************************************************************************)
C7_RootTargetLengthFromDocument ==
  (/\ pc = "done"
   /\ isPrefixAllocationEnabled(config_)
   /\ IsSet(config_.prefix_allocation_config)
   /\ config_.prefix_allocation_config[1].prefix_allocation_mode = "DYNAMIC_ROOT_NODE") =>
    LET paConf == config_.prefix_allocation_config[1]
        docLen == ValueOr(paConf.allocate_prefix_len, 0)
        seed == createNetwork(ValueOr(paConf.seed_prefix, <<>>))
    IN /\ docLen > seed.second
       /\ docLen <= BitCount(seed.first.family)
       /\ IsSet(prefixAllocationParams_)
       /\ prefixAllocationParams_[1].second = docLen

(***************************************************************************)
(* C8.  createPrefixAllocationParams(seed, target), target being the value *)
(* its uint8_t parameter holds, returns exactly when seed is non-empty,    *)
(* target > 0, seed parses, and declared length < target <= 32 (v4) or     *)
(* <= 128 (v6); it then returns the declared seed length and target        *)
(* unchanged.  Otherwise it throws: "must be filled" for an empty seed or  *)
(* target 0, a parse error for a malformed seed, a range error when the    *)
(* length relation is violated.                                            *)
(***************************************************************************)
RootCallMade ==
  /\ IsDocument
  /\ isPrefixAllocationEnabled(config_)
  /\ Cardinality(areaIds_) <= 1
  /\ IsSet(config_.prefix_allocation_config)
  /\ config_.prefix_allocation_config[1].prefix_allocation_mode = "DYNAMIC_ROOT_NODE"
  /\ (pc \in AfterPrefixAllocation \/ FailedWith(CreateParamsMsgs \cup {V4DisabledMsg}))

SeedArgument == ValueOr(config_.prefix_allocation_config[1].seed_prefix, <<>>)
TargetArgument ==
  ValueOr(config_.prefix_allocation_config[1].allocate_prefix_len, 0) % 256

LengthRelationHolds(seed, target) ==
  LET net == createNetwork(seed)
  IN \/ net.first.family = "v4" /\ net.second < target /\ target <= 32
     \/ net.first.family = "v6" /\ net.second < target /\ target <= 128

C8_CreateParamsSucceedsExactlyWhen ==
  RootCallMade =>
    LET seed == SeedArgument
        target == TargetArgument
        filled == seed # <<>> /\ target > 0
        parses == filled /\ ~createNetworkFails(seed)
        ok == parses /\ LengthRelationHolds(seed, target)
    IN /\ IsSet(prefixAllocationParams_) <=> ok
       /\ ok => /\ ~FailedWith(CreateParamsMsgs)
                /\ prefixAllocationParams_[1].first.second = createNetwork(seed).second
                /\ prefixAllocationParams_[1].second = target
       /\ ~ok => pc = "failed"
       /\ ~filled => err.type = "invalid_argument" /\ err.msg = MustBeFilledMsg
       /\ (filled /\ ~parses) => err.type = "IPAddressFormatException"
       /\ (parses /\ ~ok) => err.type = "out_of_range"

\* createPrefixAllocationParams("10.0.0.0/8", 24) returned (8, 24)
C8_Witness ==
  /\ RootCallMade
  /\ SeedArgument = <<"10.0.0.0", 8>>
  /\ config_.prefix_allocation_config[1].allocate_prefix_len = Some(24)
  /\ IsSet(prefixAllocationParams_)
  /\ prefixAllocationParams_[1].first.second = 8
  /\ prefixAllocationParams_[1].second = 24

(***************************************************************************)
(* C9.  With prefix allocation enabled in mode DYNAMIC_LEAF_NODE or        *)
(* STATIC, the validator accepts exactly when the seed prefix is empty or  *)
(* absent and allocate_prefix_len is 0 or absent; any other value of       *)
(* either operand, negative lengths included, is rejected.                 *)
(***************************************************************************)
LeafModeChecked ==
  /\ IsDocument
  /\ isPrefixAllocationEnabled(config_)
  /\ Cardinality(areaIds_) <= 1
  /\ IsSet(config_.prefix_allocation_config)
  /\ config_.prefix_allocation_config[1].prefix_allocation_mode
       \in {"DYNAMIC_LEAF_NODE", "STATIC"}

LeafOperandsAbsent(paConf) ==
  /\ ValueOr(paConf.seed_prefix, <<>>) = <<>>
  /\ ValueOr(paConf.allocate_prefix_len, 0) = 0

C9_LeafAcceptedIffOperandsAbsent ==
  LeafModeChecked =>
    /\ pc \in AfterPrefixAllocation =>
         LeafOperandsAbsent(config_.prefix_allocation_config[1])
    /\ FailedWith({LeafOperandsMsg}) =>
         ~LeafOperandsAbsent(config_.prefix_allocation_config[1])

(***************************************************************************)
(* C10.  Apart from the port check, the liveness validator accepts exactly *)
(* the documents with hello > 0, 0 < fastinit <= 1000 * hello,             *)
(* 0 < keepalive <= hold, hold > 0, graceful restart > 0 and               *)
(* >= 3 * keepalive, 0 <= lower < upper thresholds, and                    *)
(* 0 <= fast <= slow window sizes.                                         *)
(***************************************************************************)
TimingLegal(sp) ==
  /\ sp.hello_time_s > 0
  /\ 0 < sp.fastinit_hello_time_ms
  /\ sp.fastinit_hello_time_ms <= 1000 * sp.hello_time_s
  /\ 0 < sp.keepalive_time_s
  /\ sp.keepalive_time_s <= sp.hold_time_s
  /\ sp.hold_time_s > 0
  /\ sp.graceful_restart_time_s > 0
  /\ sp.graceful_restart_time_s >= 3 * sp.keepalive_time_s
  /\ sp.step_detector_conf.lower_threshold >= 0
  /\ sp.step_detector_conf.upper_threshold >= 0
  /\ sp.step_detector_conf.lower_threshold < sp.step_detector_conf.upper_threshold
  /\ sp.step_detector_conf.fast_window_size >= 0
  /\ sp.step_detector_conf.slow_window_size >= 0
  /\ sp.step_detector_conf.fast_window_size <= sp.step_detector_conf.slow_window_size

OrderedFibAreaMsg == "enable_ordered_fib_programming only support single area config"
PrefixAllocationAreaMsg == "prefix_allocation only support single area config"
AfterOrderedFib == AfterAreas \ {"forwarding", "orderedFib"}

DistinctDeclaredIds(cfg) == { cfg.areas[i].area_id : i \in 1..Len(cfg.areas) }

C11_SingleAreaFeatures ==
  IsDocument =>
    LET doc == contents.doc
        feature == doc.enable_ordered_fib_programming \/ doc.enable_prefix_allocation
        declared == Cardinality(DistinctDeclaredIds(doc))
    IN /\ (pc = "done" /\ feature) => Cardinality(areaIds_) = 1
       /\ (declared >= 2 /\ doc.enable_ordered_fib_programming) =>
            pc \notin AfterOrderedFib
       /\ (declared >= 2 /\ doc.enable_prefix_allocation) =>
            pc \notin AfterPrefixAllocation
       /\ declared <= 1 =>
            ~FailedWith({OrderedFibAreaMsg, PrefixAllocationAreaMsg})

\* both features on: constructed with one declared area, and a two-area
\* document of the same family is what the area-count check rejects
C11_Witness ==
  /\ IsDocument
  /\ pc = "done"
  /\ contents.doc.enable_ordered_fib_programming
  /\ contents.doc.enable_prefix_allocation
  /\ Len(contents.doc.areas) = 1
  /\ areaIds_ = {"a"}

(***************************************************************************)
(* C12.  Every pattern set of a constructed Config (the neighbor and       *)
(* interface sets of each area, and the include, exclude and redistribute  *)
(* interface sets) is case-insensitive and anchored at both ends: it       *)
(* matches a candidate exactly when one of its patterns matches the whole  *)
(* candidate regardless of letter case, so a set from ["eth[0-9]"] matches *)
(* "eth0" and "ETH3" but not "eth0.1" or "xeth0".                          *)
(***************************************************************************)
AreaPatternSets ==
  UNION { { areaConfigs_[a].neighborRegexList[i] :
              i \in 1..Len(areaConfigs_[a].neighborRegexList) }
          \cup { areaConfigs_[a].interfaceRegexList[i] :
                   i \in 1..Len(areaConfigs_[a].interfaceRegexList) } :
          a \in DOMAIN areaConfigs_ }

LinkMonitorPatternSets ==
  { includeItfRegexes_[i] : i \in 1..Len(includeItfRegexes_) }
  \cup { excludeItfRegexes_[i] : i \in 1..Len(excludeItfRegexes_) }
  \cup { redistributeItfRegexes_[i] : i \in 1..Len(redistributeItfRegexes_) }

\* some pattern spans the whole candidate, letter case ignored
WholeNameAnyCase(patterns, candidate) ==
  \E i \in 1..Len(patterns) : FullMatch(patterns[i], candidate, FALSE)

CaseInsensitiveAnchored(set) ==
  /\ ~set.case_sensitive
  /\ set.anchor = "ANCHOR_BOTH"
  /\ \A c \in Candidates : SetMatch(set, c) <=> WholeNameAnyCase(set.patterns, c)
  /\ set.patterns = <<PatEth>> =>
       /\ SetMatch(set, <<"e", "t", "h", "0">>)
       /\ SetMatch(set, <<"E", "T", "H", "3">>)
       /\ ~SetMatch(set, <<"e", "t", "h", "0", ".", "1">>)
       /\ ~SetMatch(set, <<"x", "e", "t", "h", "0">>)

C12_EverySetCaseInsensitiveAnchored ==
  pc = "done" =>
    \A set \in AreaPatternSets \cup LinkMonitorPatternSets :
      CaseInsensitiveAnchored(set)

====
